---- MODULE Spec2Model ----
(***************************************************************************)
(* A model of gltf_opt's reconstruction pass (src/src/opt.rs, optimize).   *)
(*                                                                         *)
(* The source document o_json and the source blob o_blob are the parsed    *)
(* input; n_json and n_blob are the document and blob under construction.  *)
(* Array indices are 0-based as in the code: entry i of a Vec is element   *)
(* i+1 of the sequence that models it.  Option<T> is a sequence of length  *)
(* at most one: None is <<>> and Some(x) is <<x>>.                         *)
(*                                                                         *)
(* An f32 is modelled as a signed 32-bit fixed-point number with one       *)
(* fractional bit (the integer v stands for v/2), laid out in 4 bytes,     *)
(* little-endian.  Coordinates of the inputs are whole numbers (even v),   *)
(* for which f32 addition, negation and halving are exact as well.         *)
(***************************************************************************)
EXTENDS Integers, Sequences, FiniteSets, TLC

(***************************************************************************)
(* Option and Vec helpers                                                  *)
(***************************************************************************)
None == <<>>

Some(x) == <<x>>

IsSome(o) == o /= <<>>

IsNone(o) == o = <<>>

Unwrap(o) == o[1]

\* Option::unwrap_or
UnwrapOr(o, d) == IF o = <<>> THEN d ELSE o[1]

\* Vec::get / slice::get with a 0-based index
Get(s, i) == IF i >= 0 /\ i < Len(s) THEN <<s[i + 1]>> ELSE <<>>

\* slice::get(a..b): the bytes a .. b-1, or None when the range is not inside s
GetRange(s, a, b) == IF a <= b /\ b <= Len(s) THEN <<SubSeq(s, a + 1, b)>> ELSE <<>>

\* slice::get(a..): the bytes from a on, or None when a is past the end
GetFrom(s, a) == IF a <= Len(s) THEN <<SubSeq(s, a + 1, Len(s))>> ELSE <<>>

Min2(a, b) == IF a <= b THEN a ELSE b

Max2(a, b) == IF a >= b THEN a ELSE b

(***************************************************************************)
(* The f32 byte codec                                                      *)
(***************************************************************************)
\* f32::to_le_bytes: the 4 bytes of v, least significant first (two's complement)
F32ToLe(v) == << v % 256, (v \div 256) % 256, (v \div 65536) % 256, (v \div 16777216) % 256 >>

\* f32::from_le_bytes of the 4 bytes of s that start at 0-based position p
F32FromLe(s, p) ==
    LET hi == IF s[p + 4] >= 128 THEN s[p + 4] - 256 ELSE s[p + 4]
    IN  s[p + 1] + 256 * s[p + 2] + 65536 * s[p + 3] + 16777216 * hi

\* x + y on f32
F32Add(x, y) == x + y

\* stand-ins for f32::MAX and f32::MIN (= -f32::MAX): beyond every coordinate
F32Max == 1000000

F32Min == -F32Max

\* slice[start..start+len].copy_from_slice(bytes)
WriteAt(data, start, bytes) ==
    [k \in 1..Len(data) |->
        IF k > start /\ k <= start + Len(bytes) THEN bytes[k - start] ELSE data[k]]

(***************************************************************************)
(* Accessor relocation (add_accessor_with_offset)                          *)
(***************************************************************************)
\* Root::push for the array named f: the entry is appended, its index is the old length
Push(json, f, x) == [json EXCEPT ![f] = Append(@, x)]

\* view.byte_offset, 0 when unspecified
ViewOffset(view) == UnwrapOr(view.byte_offset, 0)

\* faulty variant of ViewSpan: the view's offset is forgotten
ViewSpan_IgnoresOffset(blob, view) == GetRange(blob, 0, view.byte_length)

\* faulty variant of ViewSpan: a range that runs past the blob is cut short instead of refused
ViewSpan_Clamped(blob, view) ==
    GetRange(blob, Min2(ViewOffset(view), Len(blob)),
             Min2(ViewOffset(view) + view.byte_length, Len(blob)))

\* the span of the source blob a buffer-view declares: o_blob.get(offset..(offset + length))
ViewSpan(blob, view) == GetRange(blob, ViewOffset(view), ViewOffset(view) + view.byte_length)

\* faulty variant of AppendOffset: every relocated view starts at 0
AppendOffset_Zero(blob) == 0

\* the offset a new buffer-view is given: the new blob's length before the append
AppendOffset(blob) == Len(blob)

\* one record of the translation loop: 3 floats at start, each moved by its component
MoveRecord(data, start, off) ==
    LET x == F32FromLe(data, start)
        y == F32FromLe(data, start + 4)
        z == F32FromLe(data, start + 8)
        dx == WriteAt(data, start, F32ToLe(F32Add(x, off[1])))
        dy == WriteAt(dx, start + 4, F32ToLe(F32Add(y, off[2])))
    IN  WriteAt(dy, start + 8, F32ToLe(F32Add(z, off[3])))

\* the translation loop over the records i .. count-1 of the copied span
RECURSIVE ApplyOffset(_, _, _, _, _, _)
ApplyOffset(data, acc_offset, stride, count, off, i) ==
    IF i >= count THEN data
    ELSE LET start == acc_offset + i * stride
             moved == IF start + 12 <= Len(data) THEN MoveRecord(data, start, off) ELSE data
         IN  ApplyOffset(moved, acc_offset, stride, count, off, i + 1)

\* an accessor's min or max after translation: its first three numbers are moved
TranslateBound(b, off) ==
    IF IsSome(b) /\ Len(b[1]) >= 3
    THEN <<[k \in 1..Len(b[1]) |-> IF k <= 3 THEN F32Add(b[1][k], off[k]) ELSE b[1][k]]>>
    ELSE b

\* the bytes appended for an accessor whose span is data
RelocatedBytes(data, acc, view, position_offset) ==
    IF IsSome(position_offset)
    THEN ApplyOffset(data, UnwrapOr(acc.byte_offset, 0), UnwrapOr(view.byte_stride, 12),
                     acc.count, position_offset[1], 0)
    ELSE data

\* the accessor pushed for acc, before its buffer_view is set
RelocatedAccessor(acc, position_offset) ==
    IF IsSome(position_offset)
    THEN [acc EXCEPT !.min = TranslateBound(acc.min, position_offset[1]),
                     !.max = TranslateBound(acc.max, position_offset[1])]
    ELSE acc

\* add_accessor_with_offset: the new blob, the new document and the returned index
AddAccessorWithOffset(nb, nj, ob, oj, idx, position_offset) ==
    LET acc == Get(oj.accessors, idx)
        idx_view == IF IsSome(acc) THEN acc[1].buffer_view ELSE None
        view == IF IsSome(idx_view) THEN Get(oj.buffer_views, idx_view[1]) ELSE None
        data == IF IsSome(view) THEN ViewSpan(ob, view[1]) ELSE None
    IN  IF IsSome(data)
        THEN LET bytes == RelocatedBytes(data[1], acc[1], view[1], position_offset)
                 n_view == [view[1] EXCEPT !.byte_offset = Some(AppendOffset(nb)),
                                           !.byte_length = Len(bytes)]
                 n_view_idx == Len(nj.buffer_views)
                 n_acc == [RelocatedAccessor(acc[1], position_offset)
                              EXCEPT !.buffer_view = Some(n_view_idx)]
                 json1 == Push(nj, "buffer_views", n_view)
             IN  [blob |-> nb \o bytes,
                  json |-> Push(json1, "accessors", n_acc),
                  ret |-> Some(Len(json1.accessors))]
        ELSE [blob |-> nb, json |-> nj, ret |-> None]

\* add_accessor: relocation without an offset
AddAccessor(nb, nj, ob, oj, idx) ==
    AddAccessorWithOffset(nb, nj, ob, oj, idx, None)

(***************************************************************************)
(* Image names: a string is the sequence of its characters                 *)
(***************************************************************************)
\* str::replace: every non-overlapping match of from, left to right, becomes to
RECURSIVE StrReplace(_, _, _)
StrReplace(s, from, to) ==
    IF Len(s) < Len(from) THEN s
    ELSE IF SubSeq(s, 1, Len(from)) = from
         THEN to \o StrReplace(SubSeq(s, Len(from) + 1, Len(s)), from, to)
         ELSE <<s[1]>> \o StrReplace(Tail(s), from, to)

ExtKtx2 == <<".", "k", "t", "x", "2">>

\* the chain of replacements of update_image_name_for_ktx2, in the code's order
ReplaceExtensions(name) ==
    LET r1 == StrReplace(name, <<".", "j", "p", "g">>, ExtKtx2)
        r2 == StrReplace(r1, <<".", "j", "p", "e", "g">>, ExtKtx2)
        r3 == StrReplace(r2, <<".", "p", "n", "g">>, ExtKtx2)
        r4 == StrReplace(r3, <<".", "w", "e", "b", "p">>, ExtKtx2)
        r5 == StrReplace(r4, <<".", "J", "P", "G">>, ExtKtx2)
        r6 == StrReplace(r5, <<".", "J", "P", "E", "G">>, ExtKtx2)
        r7 == StrReplace(r6, <<".", "P", "N", "G">>, ExtKtx2)
    IN  StrReplace(r7, <<".", "W", "E", "B", "P">>, ExtKtx2)

\* update_image_name_for_ktx2 on an Option<String>
UpdateImageNameForKtx2(image_name) ==
    IF IsSome(image_name)
    THEN LET updated_name == ReplaceExtensions(image_name[1])
         IN  IF updated_name = image_name[1] THEN <<image_name[1] \o ExtKtx2>>
             ELSE <<updated_name>>
    ELSE None

\* the decimal digits of n, as format!("{}") prints them
RECURSIVE Decimal(_)
Decimal(n) ==
    LET d == <<"0", "1", "2", "3", "4", "5", "6", "7", "8", "9">>
    IN  IF n < 10 THEN <<d[n + 1]>> ELSE Decimal(n \div 10) \o <<d[(n % 10) + 1]>>

\* format!("texture_{}.ktx2", n)
DefaultKtx2Name(n) == <<"t", "e", "x", "t", "u", "r", "e", "_">> \o Decimal(n) \o ExtKtx2

(***************************************************************************)
(* Image re-embedding (add_image) and span extraction (get_image_data)     *)
(***************************************************************************)
\* add_image: append b, push its buffer-view, push the image that points at it
AddImage(nb, nj, img, b, mime_type) ==
    LET offset == Len(nb)
        view == [buffer |-> 0,
                 byte_length |-> Len(b),
                 byte_offset |-> IF offset = 0 THEN None ELSE Some(offset),
                 byte_stride |-> None]
        json1 == Push(nj, "buffer_views", view)
        view_idx == Len(nj.buffer_views)
        img1 == [img EXCEPT !.buffer_view = Some(view_idx), !.mime_type = Some(mime_type)]
        renamed == [img1 EXCEPT !.name = UpdateImageNameForKtx2(img.name),
                                !.uri = UpdateImageNameForKtx2(img.uri)]
        n_img == IF mime_type = "image/ktx2"
                 THEN IF IsNone(renamed.name)
                      THEN [renamed EXCEPT !.name = Some(DefaultKtx2Name(Len(json1.images)))]
                      ELSE renamed
                 ELSE img1
    IN  [blob |-> nb \o b,
         json |-> Push(json1, "images", n_img),
         ret |-> Len(json1.images)]

\* get_image_data: the embedded bytes of the image a texture shows, if there are any
GetImageData(ob, oj, texture_idx) ==
    LET tex == Get(oj.textures, texture_idx)
        img == IF IsSome(tex) THEN Get(oj.images, tex[1].source) ELSE None
        idx_view == IF IsSome(img) THEN img[1].buffer_view ELSE None
        view == IF IsSome(idx_view) THEN Get(oj.buffer_views, idx_view[1]) ELSE None
    IN  IF IsNone(view) THEN None
        ELSE IF ViewOffset(view[1]) + view[1].byte_length > Len(ob) THEN None
        ELSE ViewSpan(ob, view[1])

(***************************************************************************)
(* Texture conversion (add_texture, add_metallic_roughness_texture,        *)
(* add_normal_texture).  The resize/codec service is external: out is what *)
(* it returned, [ok |-> FALSE] or [ok |-> TRUE, bytes |-> the encoding].   *)
(***************************************************************************)
\* the MIME type of the re-embedded image
MimeFor(convert_to_ktx2, default_mime) ==
    IF convert_to_ktx2 THEN "image/ktx2" ELSE default_mime

\* faulty variant of MissingImageError: the message leaves the texture index out
MissingImageError_NoIndex(role, index) ==
    [cause |-> "missing image data", role |-> <<role>>, texture_index |-> <<>>]

\* the error of a texture whose image data is missing: the message names role and index
MissingImageError(role, index) ==
    [cause |-> "missing image data", role |-> <<role>>, texture_index |-> <<index>>]

\* the error the service returned, passed on with `?`: it names neither role nor index
CodecError == [cause |-> "codec", role |-> <<>>, texture_index |-> <<>>]

\* the body the three conversion functions share
ConvertTexture(nb, nj, ob, oj, info, convert_to_ktx2, role, default_mime, out) ==
    LET data == GetImageData(ob, oj, info.index)
    IN  IF IsNone(data)
        THEN [ok |-> FALSE, err |-> MissingImageError(role, info.index),
              blob |-> nb, json |-> nj, info |-> info]
        ELSE IF ~out.ok
        THEN [ok |-> FALSE, err |-> CodecError, blob |-> nb, json |-> nj, info |-> info]
        ELSE LET original_texture == oj.textures[info.index + 1]
                 new_image == oj.images[original_texture.source + 1]
                 r == AddImage(nb, nj, new_image, out.bytes,
                               MimeFor(convert_to_ktx2, default_mime))
                 new_tex == [original_texture EXCEPT !.source = r.ret]
                 idx_tex == Len(r.json.textures)
             IN  [ok |-> TRUE, err |-> CodecError, blob |-> r.blob,
                  json |-> Push(r.json, "textures", new_tex),
                  info |-> [info EXCEPT !.index = idx_tex]]

AddTexture(nb, nj, ob, oj, info, convert_to_ktx2, out) ==
    ConvertTexture(nb, nj, ob, oj, info, convert_to_ktx2, "base color", "image/jpeg", out)

AddMetallicRoughnessTexture(nb, nj, ob, oj, info, convert_to_ktx2, out) ==
    ConvertTexture(nb, nj, ob, oj, info, convert_to_ktx2, "metallic/roughness", "image/jpeg", out)

AddNormalTexture(nb, nj, ob, oj, normal, convert_to_ktx2, out) ==
    ConvertTexture(nb, nj, ob, oj, normal, convert_to_ktx2, "normal", "image/png", out)

\* faulty variant of MetallicRoughnessSize: the full edge
MetallicRoughnessSize_Full(n_tex_size) == n_tex_size

\* the edge the metallic/roughness conversion is asked for
MetallicRoughnessSize(n_tex_size) == n_tex_size \div 2

\* add_primitive's wrapping of a conversion error: "Failed to process <stage> texture: {e}"
ProcessError(stage, e) ==
    [stage |-> stage, cause |-> e.cause, role |-> e.role, texture_index |-> e.texture_index]

(***************************************************************************)
(* Padding, bounding box and pivot offset                                  *)
(***************************************************************************)
\* faulty variant of PadTo4Bytes: the blob is padded to a multiple of 2
RECURSIVE PadTo4Bytes_To2(_)
PadTo4Bytes_To2(data) == IF Len(data) % 2 = 0 THEN data ELSE PadTo4Bytes_To2(Append(data, 0))

\* pad_to_4bytes: zero bytes are pushed until the length is a multiple of 4
RECURSIVE PadTo4Bytes(_)
PadTo4Bytes(data) == IF Len(data) % 4 = 0 THEN data ELSE PadTo4Bytes(Append(data, 0))

\* the records i .. count-1 of get_position_data, after acc; None once one does not fit
RECURSIVE ReadPositions(_, _, _, _, _, _)
ReadPositions(data, acc_offset, stride, count, i, acc) ==
    IF i >= count THEN <<acc>>
    ELSE LET start == acc_offset + i * stride
         IN  IF start + 12 > Len(data) THEN <<>>
             ELSE ReadPositions(data, acc_offset, stride, count, i + 1,
                      Append(acc, <<F32FromLe(data, start), F32FromLe(data, start + 4),
                                    F32FromLe(data, start + 8)>>))

\* get_position_data: the positions of an accessor, read from the view's offset on
GetPositionData(ob, oj, accessor_idx) ==
    LET acc == Get(oj.accessors, accessor_idx)
        idx_view == IF IsSome(acc) THEN acc[1].buffer_view ELSE None
        view == IF IsSome(idx_view) THEN Get(oj.buffer_views, idx_view[1]) ELSE None
        data == IF IsSome(view) THEN GetFrom(ob, ViewOffset(view[1])) ELSE None
    IN  IF IsNone(data) THEN None
        ELSE ReadPositions(data[1], UnwrapOr(acc[1].byte_offset, 0),
                           UnwrapOr(view[1].byte_stride, 12), acc[1].count, 0, <<>>)

\* the accessors of the POSITION attributes, in mesh, primitive and attribute order
RECURSIVE PositionAccessorsOf(_, _)
PositionAccessorsOf(attributes, k) ==
    IF k > Len(attributes) THEN <<>>
    ELSE (IF attributes[k].semantic = "POSITION" THEN <<attributes[k].accessor>> ELSE <<>>)
         \o PositionAccessorsOf(attributes, k + 1)

RECURSIVE PositionAccessorsOfPrims(_, _)
PositionAccessorsOfPrims(primitives, k) ==
    IF k > Len(primitives) THEN <<>>
    ELSE PositionAccessorsOf(primitives[k].attributes, 1)
         \o PositionAccessorsOfPrims(primitives, k + 1)

RECURSIVE PositionAccessors(_, _)
PositionAccessors(meshes, k) ==
    IF k > Len(meshes) THEN <<>>
    ELSE PositionAccessorsOfPrims(meshes[k].primitives, 1) \o PositionAccessors(meshes, k + 1)

\* the fold of one accessor's positions into the running box
RECURSIVE FoldPositions(_, _, _)
FoldPositions(box, positions, k) ==
    IF k > Len(positions) THEN box
    ELSE LET pos == positions[k]
         IN  FoldPositions(
                 [min |-> [c \in 1..3 |-> Min2(box.min[c], pos[c])],
                  max |-> [c \in 1..3 |-> Max2(box.max[c], pos[c])],
                  found |-> box.found],
                 positions, k + 1)

\* the loop of calculate_bounding_box over the POSITION accessors k .. of accs
RECURSIVE FoldAccessors(_, _, _, _, _)
FoldAccessors(box, ob, oj, accs, k) ==
    IF k > Len(accs) THEN box
    ELSE LET positions == GetPositionData(ob, oj, accs[k])
         IN  FoldAccessors(
                 IF IsSome(positions)
                 THEN FoldPositions([box EXCEPT !.found = TRUE], positions[1], 1)
                 ELSE box,
                 ob, oj, accs, k + 1)

\* calculate_bounding_box: Some([min, max]) when some POSITION accessor was readable
CalculateBoundingBox(ob, oj) ==
    LET box == FoldAccessors([min |-> <<F32Max, F32Max, F32Max>>,
                              max |-> <<F32Min, F32Min, F32Min>>,
                              found |-> FALSE],
                             ob, oj, PositionAccessors(oj.meshes, 1), 1)
    IN  IF box.found THEN <<[min |-> box.min, max |-> box.max]>> ELSE <<>>

\* faulty variant of CalculateCenterBottomOffset: the box's centre on every axis
CalculateCenterBottomOffset_Centre(min, max) ==
    << -((min[1] + max[1]) \div 2), -((min[2] + max[2]) \div 2), -((min[3] + max[3]) \div 2) >>

\* calculate_center_bottom_offset; halving a sum of two whole numbers is exact
CalculateCenterBottomOffset(min, max) ==
    LET center_x == (min[1] + max[1]) \div 2
        center_z == (min[3] + max[3]) \div 2
    IN  <<-center_x, -min[2], -center_z>>

\* the pivot offset optimize computes
PivotOffset(ob, oj, center_pivot) ==
    IF center_pivot
    THEN LET box == CalculateBoundingBox(ob, oj)
         IN  IF IsSome(box) THEN <<CalculateCenterBottomOffset(box[1].min, box[1].max)>>
             ELSE <<>>
    ELSE <<>>

\* Vec::contains
Contains(s, x) == \E k \in 1..Len(s) : s[k] = x

\* faulty variant of ExtensionsRequired: the name is pushed without looking for it
ExtensionsRequired_AlwaysPushes(oj, convert_to_ktx2) ==
    IF convert_to_ktx2 THEN Append(oj.extensions_required, "KHR_texture_basisu")
    ELSE oj.extensions_required

\* the extension list optimize builds from the source's required list
ExtensionsRequired(oj, convert_to_ktx2) ==
    IF convert_to_ktx2 /\ ~Contains(oj.extensions_required, "KHR_texture_basisu")
    THEN Append(oj.extensions_required, "KHR_texture_basisu")
    ELSE oj.extensions_required

\* faulty variant of InitialDocument: the cameras are not copied
InitialDocument_NoCameras(oj, convert_to_ktx2) ==
    [asset |-> oj.asset, scene |-> oj.scene,
     extensions_required |-> ExtensionsRequired(oj, convert_to_ktx2),
     extensions_used |-> ExtensionsRequired(oj, convert_to_ktx2),
     cameras |-> <<>>, nodes |-> oj.nodes, samplers |-> oj.samplers, scenes |-> oj.scenes,
     accessors |-> <<>>, buffers |-> <<>>, buffer_views |-> <<>>, images |-> <<>>,
     materials |-> <<>>, meshes |-> <<>>, skins |-> <<>>, textures |-> <<>>]

\* the new document before the pass: the pass-through arrays copied, the rest empty
InitialDocument(oj, convert_to_ktx2) ==
    [asset |-> oj.asset,
     scene |-> oj.scene,
     extensions_required |-> ExtensionsRequired(oj, convert_to_ktx2),
     extensions_used |-> ExtensionsRequired(oj, convert_to_ktx2),
     cameras |-> oj.cameras,
     nodes |-> oj.nodes,
     samplers |-> oj.samplers,
     scenes |-> oj.scenes,
     accessors |-> <<>>,
     buffers |-> <<>>,
     buffer_views |-> <<>>,
     images |-> <<>>,
     materials |-> <<>>,
     meshes |-> <<>>,
     skins |-> <<>>,
     textures |-> <<>>]

(***************************************************************************)
(* The inputs: source documents as the parser hands them to optimize.      *)
(* Every index of a source document resolves (the parser validates them);  *)
(* a buffer-view's range is not validated against the blob, and an         *)
(* accessor may lack a buffer-view.                                        *)
(***************************************************************************)
\* coordinates are at most MaxCoord away from the origin
MaxCoord == 1

\* a varied POSITION accessor has at most MaxCount records
MaxCount == 2

\* an index accessor has at most MaxIdx indices
MaxIdx == 2

\* the codec returns at most MaxEncLen bytes
MaxEncLen == 2

\* whole-number coordinates, in the fixed-point representation (v stands for v/2)
Coords == {2 * k : k \in -MaxCoord..MaxCoord}

Cube == {<<x, y, z>> : x \in Coords, y \in Coords, z \in Coords}

Diagonal == {<<c, -c, c + 2>> : c \in Coords}

SeqsUpTo(S, n) == UNION {[1..k -> S] : k \in 0..n}

\* the mesh of the pivot example: positions spanning (-2,0,-1) .. (2,4,3)
ExamplePoints == << <<-4, 0, -2>>, <<4, 8, 6>> >>

\* the bytes of a sequence of positions, 12 per record
RECURSIVE EncodePositions(_)
EncodePositions(points) ==
    IF points = <<>> THEN <<>>
    ELSE F32ToLe(points[1][1]) \o F32ToLe(points[1][2]) \o F32ToLe(points[1][3])
         \o EncodePositions(Tail(points))

\* n 16-bit indices 0, 1, ..., little-endian
IndexBytes(n) == [k \in 1..(2 * n) |-> IF k % 2 = 1 THEN (k - 1) \div 2 ELSE 0]

\* the componentwise minimum (lo) or maximum of a non-empty sequence of positions
BoundOf(points, lo) ==
    [c \in 1..3 |->
        CHOOSE v \in {points[k][c] : k \in 1..Len(points)} :
            \A k \in 1..Len(points) : IF lo THEN v <= points[k][c] ELSE v >= points[k][c]]

\* the byte chunks of the source blob, one per source buffer-view, in order:
\* positions 0, normals 0, indices, positions 1, inverse-bind matrices, image 0, image 1
Chunks(g) ==
    << EncodePositions(g.pts0),
       EncodePositions([k \in 1..Len(g.pts0) |-> <<0, 2, 0>>]),
       IndexBytes(g.nidx),
       EncodePositions(g.pts1),
       [k \in 1..64 |-> IF k % 20 = 3 THEN 64 ELSE 0],
       <<137, 80, 78>>,
       <<255, 216, 255, 224, 1>> >>

RECURSIVE Concat(_)
Concat(ss) == IF ss = <<>> THEN <<>> ELSE ss[1] \o Concat(Tail(ss))

SourceBlob(g) == Concat(Chunks(g))

\* the source buffer-view of chunk k; g.brk makes one view's range wrong
SourceView(g, k) ==
    LET chunks == Chunks(g)
        start == Len(Concat(SubSeq(chunks, 1, k - 1)))
        len == Len(chunks[k])
        declared == IF g.brk.which = k /\ g.brk.how = "out_of_range"
                    THEN len + Len(SourceBlob(g))
                    ELSE IF g.brk.which = k /\ g.brk.how = "short_view" /\ len >= 4
                    THEN len - 4
                    ELSE len
    IN  [buffer |-> 0,
         byte_offset |-> IF start = 0 THEN <<>> ELSE <<start>>,
         byte_length |-> declared,
         byte_stride |-> <<>>]

\* a record count the source blob cannot hold: one 12-byte record too many
LongCount(g) == Len(SourceBlob(g)) \div 12 + 1

\* the source accessor of chunk k (k <= 5); g.brk may take its view or overstate its count
SourceAccessor(g, k) ==
    LET view == IF g.brk.which = k /\ g.brk.how = "no_view" THEN <<>> ELSE <<k - 1>>
        plain == [buffer_view |-> view, byte_offset |-> <<>>, count |-> 1,
                  type |-> "SCALAR", component_type |-> "U16", min |-> <<>>, max |-> <<>>]
        vec3(points, bounded) ==
            [plain EXCEPT !.count = Len(points), !.type = "VEC3", !.component_type = "F32",
                          !.min = IF bounded /\ points /= <<>> THEN <<BoundOf(points, TRUE)>>
                                  ELSE <<>>,
                          !.max = IF bounded /\ points /= <<>> THEN <<BoundOf(points, FALSE)>>
                                  ELSE <<>>]
        declared ==
            CASE k = 1 -> [vec3(g.pts0, TRUE) EXCEPT !.type = g.layout.type,
                                                     !.component_type = g.layout.component_type]
              [] k = 2 -> vec3([i \in 1..Len(g.pts0) |-> <<0, 2, 0>>], FALSE)
              [] k = 3 -> [plain EXCEPT !.count = g.nidx]
              [] k = 4 -> vec3(g.pts1, TRUE)
              [] k = 5 -> [plain EXCEPT !.type = "MAT4", !.component_type = "F32"]
    IN  IF g.brk.which = k /\ g.brk.how = "long_count"
        THEN [declared EXCEPT !.count = LongCount(g)]
        ELSE declared

\* the primitives: the first has positions 0, normals 0 and maybe indices, the
\* second (when g.pts1 is not empty) has positions 1 alone
SourcePrimitives(g, m) ==
    << [indices |-> IF g.nidx > 0 THEN <<2>> ELSE <<>>,
        attributes |-> << [semantic |-> "POSITION", accessor |-> 0],
                          [semantic |-> "NORMAL", accessor |-> 1] >>,
        material |-> m.pm0] >>
    \o (IF g.pts1 = <<>> THEN <<>>
        ELSE << [indices |-> <<>>,
                 attributes |-> << [semantic |-> "POSITION", accessor |-> 3] >>,
                 material |-> m.pm1] >>)

\* the meshes: one mesh of all primitives, or one mesh per primitive when g.split
SourceMeshes(g, m) ==
    LET prims == SourcePrimitives(g, m)
    IN  IF g.split
        THEN [k \in 1..Len(prims) |-> [name |-> k, primitives |-> <<prims[k]>>]]
        ELSE << [name |-> 0, primitives |-> prims] >>

\* the name and the URI of the first image, where a family does not vary them
DefaultNaming == [name |-> << <<"a", ".", "p", "n", "g">> >>, uri |-> <<>>]

SourceImages(m) ==
    << [buffer_view |-> <<5>>, mime_type |-> <<"image/png">>,
        name |-> m.img0.name, uri |-> m.img0.uri],
       IF m.img1_embedded
       THEN [buffer_view |-> <<6>>, mime_type |-> <<"image/jpeg">>, name |-> <<>>, uri |-> <<>>]
       ELSE [buffer_view |-> <<>>, mime_type |-> <<>>, name |-> <<>>,
             uri |-> << <<"b", ".", "j", "p", "g">> >>] >>

SourceTextures ==
    << [source |-> 0, sampler |-> <<0>>],
       [source |-> 1, sampler |-> <<>>],
       [source |-> 0, sampler |-> <<0>>] >>

\* the document the parser returns for the parameters g, m and e
SourceDocument(g, m, e) ==
    [asset |-> "2.0",
     scene |-> <<0>>,
     extensions_used |-> e.used,
     extensions_required |-> e.required,
     cameras |-> << [type |-> "perspective"] >>,
     nodes |-> << [mesh |-> <<0>>, skin |-> IF g.skin THEN <<0>> ELSE <<>>, camera |-> <<>>],
                  [mesh |-> IF g.split /\ g.pts1 /= <<>> THEN <<1>> ELSE <<>>,
                   skin |-> IF g.skin THEN <<1>> ELSE <<>>, camera |-> <<0>>] >>,
     samplers |-> << [wrap_s |-> "repeat"] >>,
     scenes |-> << [nodes |-> <<0, 1>>] >>,
     accessors |-> [k \in 1..5 |-> SourceAccessor(g, k)],
     buffers |-> << [byte_length |-> Len(SourceBlob(g))] >>,
     buffer_views |-> [k \in 1..7 |-> SourceView(g, k)],
     images |-> SourceImages(m),
     materials |-> m.mats,
     meshes |-> SourceMeshes(g, m),
     skins |-> IF g.skin THEN << [inverse_bind_matrices |-> g.ibm, joints |-> <<0>>],
                                 [inverse_bind_matrices |-> <<>>, joints |-> <<1, 0>>] >>
               ELSE <<>>,
     textures |-> SourceTextures]

\* a texture reference of a material
Info(index) == [index |-> index, tex_coord |-> 0]

\* a material with the texture slots `slots`; spread gives each slot its own texture
Material(slots, spread) ==
    LET ref(slot, index) == IF slot \in slots THEN <<Info(IF spread THEN index ELSE 0)>>
                            ELSE <<>>
    IN  [pbr_base_color_texture |-> ref("base_color", 0),
         pbr_metallic_roughness_texture |-> ref("metallic_roughness", 1),
         normal_texture |-> ref("normal", 2),
         occlusion_texture |-> ref("occlusion", 2),
         emissive_texture |-> ref("emissive", 1)]

\* the geometry the families that vary something else share
PlainGeometry ==
    [pts0 |-> << <<2, 0, -2>> >>, pts1 |-> <<>>, nidx |-> 1, split |-> FALSE, skin |-> TRUE,
     ibm |-> <<4>>, brk |-> [which |-> 0, how |-> "none"],
     layout |-> [type |-> "VEC3", component_type |-> "F32"]]

NoMaterials ==
    [mats |-> <<>>, pm0 |-> <<>>, pm1 |-> <<>>, img1_embedded |-> TRUE, img0 |-> DefaultNaming]

NoExtensions == [used |-> <<>>, required |-> <<>>]

Config(size, remove_normal, ktx2, pivot) ==
    [new_texture_size |-> size, remove_normal_texture |-> remove_normal,
     convert_to_ktx2 |-> ktx2, center_pivot |-> pivot]

\* positions vary: the first record over the cube, the others along a diagonal when the
\* pivot is moved; one record over the cube under every arrangement of meshes and pivot
PositionInputs ==
    {[g |-> [PlainGeometry EXCEPT !.pts0 = <<p>> \o rest, !.pts1 = pts1],
      m |-> NoMaterials, e |-> NoExtensions, c |-> Config(1024, FALSE, FALSE, TRUE)] :
        p \in Cube, rest \in SeqsUpTo(Diagonal, MaxCount - 1), pts1 \in {<<>>, ExamplePoints}}
    \cup
    {[g |-> [PlainGeometry EXCEPT !.pts0 = <<p>>, !.pts1 = pts1, !.split = split],
      m |-> NoMaterials, e |-> NoExtensions, c |-> Config(1024, FALSE, FALSE, pivot)] :
        p \in Cube, pts1 \in {<<>>, ExamplePoints}, split \in BOOLEAN, pivot \in BOOLEAN}

\* one accessor's data is missing: no buffer-view, a range that is not in the blob, or
\* more records than the blob holds
BrokenInputs ==
    {[g |-> [PlainGeometry EXCEPT !.pts0 = << <<2, -2, 0>>, <<-2, 2, 4>> >>, !.pts1 = pts1,
                                  !.nidx = nidx, !.skin = skin, !.ibm = ibm,
                                  !.brk = [which |-> which, how |-> how]],
      m |-> NoMaterials, e |-> NoExtensions, c |-> Config(1024, FALSE, FALSE, pivot)] :
        pts1 \in {<<>>, ExamplePoints}, nidx \in 0..MaxIdx, skin \in BOOLEAN,
        ibm \in {<<>>, <<4>>}, which \in {1, 2, 3, 5},
        how \in {"no_view", "out_of_range", "short_view", "long_count"}, pivot \in BOOLEAN}

\* the slots a material is given: every choice of the three converted slots, and the
\* two others alone and beside a converted one
SlotChoices ==
    SUBSET {"base_color", "metallic_roughness", "normal"}
    \cup {{"occlusion"}, {"emissive"}, {"base_color", "occlusion", "emissive"}}

\* one primitive with a material whose texture slots vary
MaterialInputs ==
    {[g |-> PlainGeometry,
      m |-> [mats |-> <<Material(slots, spread)>>, pm0 |-> <<0>>, pm1 |-> <<>>,
             img1_embedded |-> embedded, img0 |-> DefaultNaming],
      e |-> NoExtensions, c |-> Config(1024, remove_normal, ktx2, FALSE)] :
        slots \in SlotChoices, spread \in BOOLEAN, embedded \in BOOLEAN,
        remove_normal \in BOOLEAN, ktx2 \in BOOLEAN}

\* two primitives and two materials: shared, separate, unused or absent
SharingInputs ==
    {[g |-> [PlainGeometry EXCEPT !.pts1 = ExamplePoints, !.split = split],
      m |-> [mats |-> <<Material(slots, FALSE), Material({}, FALSE)>>,
             pm0 |-> pm0, pm1 |-> pm1, img1_embedded |-> TRUE, img0 |-> DefaultNaming],
      e |-> NoExtensions, c |-> Config(1024, remove_normal, FALSE, FALSE)] :
        slots \in {{}, {"base_color"}, {"base_color", "normal"}, {"occlusion"}},
        pm0 \in {<<>>, <<0>>, <<1>>}, pm1 \in {<<>>, <<0>>, <<1>>},
        split \in BOOLEAN, remove_normal \in BOOLEAN}

ExtensionLists ==
    {<<>>, <<"KHR_texture_basisu">>, <<"KHR_materials_unlit">>,
     <<"KHR_materials_unlit", "KHR_texture_basisu">>,
     <<"KHR_texture_basisu", "KHR_texture_basisu">>}

\* the extension lists vary
ExtensionInputs ==
    {[g |-> PlainGeometry,
      m |-> [mats |-> <<Material({"base_color"}, FALSE)>>, pm0 |-> <<0>>, pm1 |-> <<>>,
             img1_embedded |-> TRUE, img0 |-> DefaultNaming],
      e |-> [used |-> used, required |-> required],
      c |-> Config(1024, FALSE, ktx2, FALSE)] :
        used \in ExtensionLists, required \in ExtensionLists, ktx2 \in BOOLEAN}

\* a string as the sequence of its characters
Chars(str) ==
    CASE str = "" -> <<>>
      [] str = "w" -> <<"w">>
      [] str = "png" -> <<"p", "n", "g">>
      [] str = ".gif" -> <<".", "g", "i", "f">>
      [] str = ".png" -> <<".", "p", "n", "g">>
      [] str = ".Png" -> <<".", "P", "n", "g">>
      [] str = ".pNg" -> <<".", "p", "N", "g">>
      [] str = ".pnG" -> <<".", "p", "n", "G">>
      [] str = ".PNg" -> <<".", "P", "N", "g">>
      [] str = ".PNG" -> <<".", "P", "N", "G">>
      [] str = ".jpg" -> <<".", "j", "p", "g">>
      [] str = ".Jpg" -> <<".", "J", "p", "g">>
      [] str = ".JPG" -> <<".", "J", "P", "G">>
      [] str = ".jpeg" -> <<".", "j", "p", "e", "g">>
      [] str = ".JpEg" -> <<".", "J", "p", "E", "g">>
      [] str = ".JPEG" -> <<".", "J", "P", "E", "G">>
      [] str = ".webp" -> <<".", "w", "e", "b", "p">>
      [] str = ".WebP" -> <<".", "W", "e", "b", "P">>
      [] str = ".WEBP" -> <<".", "W", "E", "B", "P">>

\* the endings an image name is given: recognized extensions in lower, upper and mixed
\* case, an unrecognized one, and none
Endings ==
    {"", "png", ".gif", ".png", ".Png", ".pNg", ".pnG", ".PNg", ".PNG", ".jpg", ".Jpg", ".JPG",
     ".jpeg", ".JpEg", ".JPEG", ".webp", ".WebP", ".WEBP"}

\* image names: a stem and an ending, or a stem, a recognized extension and a second ending
ImageNames ==
    {Chars("w") \o Chars(e) : e \in Endings}
    \cup {Chars("w") \o Chars(m) \o Chars(e) : m \in {".png", ".JPG"}, e \in {".gif", ".png", "w"}}

\* the first image's name or URI varies; its texture is the base-color texture
NameInputs ==
    {[g |-> PlainGeometry,
      m |-> [mats |-> <<Material({"base_color"}, FALSE)>>, pm0 |-> <<0>>, pm1 |-> <<>>,
             img1_embedded |-> TRUE, img0 |-> naming],
      e |-> NoExtensions, c |-> Config(1024, FALSE, ktx2, FALSE)] :
        naming \in {[name |-> <<n>>, uri |-> <<>>] : n \in ImageNames}
                    \cup {[name |-> <<>>, uri |-> <<n>>] : n \in ImageNames},
        ktx2 \in BOOLEAN}

\* the layouts the first POSITION accessor declares over its 12-byte records
Layouts ==
    {[type |-> t, component_type |-> c] :
        t \in {"SCALAR", "VEC2", "VEC3", "VEC4"}, c \in {"F32", "U32", "U16"}}

\* the declared layout of the first POSITION accessor varies
LayoutInputs ==
    {[g |-> [PlainGeometry EXCEPT !.pts0 = pts0, !.pts1 = pts1, !.layout = layout],
      m |-> NoMaterials, e |-> NoExtensions, c |-> Config(1024, FALSE, FALSE, pivot)] :
        pts0 \in {<< <<2, 2, 2>> >>, << <<2, 0, -2>>, <<-2, 2, 4>> >>},
        pts1 \in {<<>>, ExamplePoints}, layout \in Layouts, pivot \in BOOLEAN}

\* the small target edges run from 0 to MaxEdge
MaxEdge == 5

\* the target edges given to optimize
TextureSizes == 0..MaxEdge \cup {1023, 1024, 2048}

\* the target edge varies; the material has the three converted slots, each its own texture
SizingInputs ==
    {[g |-> PlainGeometry,
      m |-> [mats |-> <<Material({"base_color", "metallic_roughness", "normal"}, TRUE)>>,
             pm0 |-> <<0>>, pm1 |-> <<>>, img1_embedded |-> TRUE, img0 |-> DefaultNaming],
      e |-> NoExtensions, c |-> Config(size, remove_normal, ktx2, FALSE)] :
        size \in TextureSizes, remove_normal \in BOOLEAN, ktx2 \in BOOLEAN}

Inputs == PositionInputs \cup BrokenInputs \cup MaterialInputs \cup SharingInputs
          \cup ExtensionInputs \cup NameInputs \cup SizingInputs \cup LayoutInputs

\* what the codec service may return: a failure, or 1 .. MaxEncLen bytes
CodecOutcomes ==
    {[ok |-> FALSE, bytes |-> <<>>]}
    \cup {[ok |-> TRUE, bytes |-> [k \in 1..n |-> 200 + k]] : n \in 1..MaxEncLen}

(***************************************************************************)
(* The state of one run of optimize                                        *)
(***************************************************************************)
VARIABLES
    o_json,        \* the source document
    o_blob,        \* the source blob
    config,        \* new_texture_size, remove_normal_texture, convert_to_ktx2, center_pivot
    n_json,        \* the new document
    n_blob,        \* the new blob
    pivot_offset,  \* Option<[f32; 3]>
    pc,            \* the statement optimize is at
    mi,            \* the index of the mesh in work
    pi,            \* the index of the primitive in work
    ai,            \* the index of the attribute in work
    si,            \* the index of the skin in work
    n_mesh,        \* the primitives of the new mesh so far
    n_p,           \* the new primitive
    n_mat,         \* the new material
    result,        \* "running", then "ok" or "err" with the error
    origin,        \* history: what each new buffer-view was made from
    requests       \* history: the conversions asked of the codec service

vars == <<o_json, o_blob, config, n_json, n_blob, pivot_offset, pc, mi, pi, ai, si,
          n_mesh, n_p, n_mat, result, origin, requests>>

EmptyDocument ==
    [asset |-> "", scene |-> <<>>, extensions_required |-> <<>>, extensions_used |-> <<>>,
     cameras |-> <<>>, nodes |-> <<>>, samplers |-> <<>>, scenes |-> <<>>,
     accessors |-> <<>>, buffers |-> <<>>, buffer_views |-> <<>>, images |-> <<>>,
     materials |-> <<>>, meshes |-> <<>>, skins |-> <<>>, textures |-> <<>>]

NoPrimitive == [indices |-> <<>>, attributes |-> <<>>, material |-> <<>>]

NoMaterial == Material({}, FALSE)

Running == [status |-> "running", error |-> <<>>]

Init ==
    \E in \in Inputs :
        /\ o_json = SourceDocument(in.g, in.m, in.e)
        /\ o_blob = SourceBlob(in.g)
        /\ config = in.c
        /\ n_json = EmptyDocument
        /\ n_blob = <<>>
        /\ pivot_offset = <<>>
        /\ pc = "start"
        /\ mi = 0 /\ pi = 0 /\ ai = 0 /\ si = 0
        /\ n_mesh = <<>>
        /\ n_p = NoPrimitive
        /\ n_mat = NoMaterial
        /\ result = Running
        /\ origin = <<>>
        /\ requests = <<>>

(***************************************************************************)
(* The pass of optimize, one action per statement block                    *)
(***************************************************************************)
CurMesh == o_json.meshes[mi + 1]

CurPrim == CurMesh.primitives[pi + 1]

CurMaterial == o_json.materials[CurPrim.material[1] + 1]

\* where the pass goes once the skins before k are done
EnterSkin(k) == IF k < Len(o_json.skins) THEN "skin" ELSE "pad"

\* where the pass goes once the meshes before m are done
EnterMesh(m) ==
    IF m < Len(o_json.meshes)
    THEN IF Len(o_json.meshes[m + 1].primitives) > 0 THEN "indices" ELSE "push_mesh"
    ELSE EnterSkin(0)

\* the history of the buffer-views: tag is recorded when json has one more than n_json
Recorded(json, tag) ==
    IF Len(json.buffer_views) > Len(n_json.buffer_views) THEN Append(origin, tag) ELSE origin

FromAccessor(idx, offset) == [kind |-> "accessor", source |-> idx, offset |-> offset, bytes |-> <<>>]

FromImage(idx, bytes) == [kind |-> "image", source |-> idx, offset |-> <<>>, bytes |-> bytes]

Unrelocated == [blob |-> n_blob, json |-> n_json, ret |-> <<>>]

\* the start of optimize: the pivot offset, the extension lists, the new document
Begin ==
    /\ pc = "start"
    /\ pivot_offset' = PivotOffset(o_blob, o_json, config.center_pivot)
    /\ n_json' = InitialDocument(o_json, config.convert_to_ktx2)
    /\ n_mesh' = <<>>
    /\ pc' = EnterMesh(0)
    /\ UNCHANGED <<o_json, o_blob, config, n_blob, mi, pi, ai, si, n_p, n_mat, result,
                   origin, requests>>

\* add_primitive: the primitive is cloned, its indices relocated, its attributes cleared
CopyIndices ==
    /\ pc = "indices"
    /\ LET p == CurPrim
           r == IF IsSome(p.indices)
                THEN AddAccessor(n_blob, n_json, o_blob, o_json, p.indices[1])
                ELSE Unrelocated
       IN  /\ n_p' = [p EXCEPT !.indices = r.ret, !.attributes = <<>>]
           /\ n_blob' = r.blob
           /\ n_json' = r.json
           /\ origin' = Recorded(r.json, FromAccessor(UnwrapOr(p.indices, 0), <<>>))
    /\ ai' = 0
    /\ pc' = "attributes"
    /\ UNCHANGED <<o_json, o_blob, config, pivot_offset, mi, pi, si, n_mesh, n_mat, result,
                   requests>>

\* faulty variant of OffsetToApply: every attribute is handed the pivot offset
OffsetToApply_Always(semantic, offset) == offset

\* the offset add_primitive hands to the relocation of an attribute
OffsetToApply(semantic, offset) == IF semantic = "POSITION" THEN offset ELSE <<>>

\* add_primitive: one turn of the attribute loop
CopyAttribute ==
    /\ pc = "attributes"
    /\ ai < Len(CurPrim.attributes)
    /\ LET a == CurPrim.attributes[ai + 1]
           offset_to_apply == OffsetToApply(a.semantic, pivot_offset)
           r == AddAccessorWithOffset(n_blob, n_json, o_blob, o_json, a.accessor,
                                      offset_to_apply)
       IN  /\ n_p' = IF IsSome(r.ret)
                     THEN [n_p EXCEPT !.attributes =
                              Append(@, [semantic |-> a.semantic, accessor |-> r.ret[1]])]
                     ELSE n_p
           /\ n_blob' = r.blob
           /\ n_json' = r.json
           /\ origin' = Recorded(r.json, FromAccessor(a.accessor, offset_to_apply))
    /\ ai' = ai + 1
    /\ UNCHANGED <<o_json, o_blob, config, pivot_offset, pc, mi, pi, si, n_mesh, n_mat,
                   result, requests>>

\* add_primitive: after the attributes, the material is cloned if the primitive has one
CloneMaterial ==
    /\ pc = "attributes"
    /\ ai = Len(CurPrim.attributes)
    /\ IF IsSome(CurPrim.material) /\ IsSome(Get(o_json.materials, CurPrim.material[1]))
       THEN n_mat' = CurMaterial /\ pc' = "base_color"
       ELSE n_mat' = n_mat /\ pc' = "push_primitive"
    /\ UNCHANGED <<o_json, o_blob, config, n_json, n_blob, pivot_offset, mi, pi, ai, si,
                   n_mesh, n_p, result, origin, requests>>

\* the effect of one conversion r on the blob, the document, the result and the histories
Converted(r, out, stage, info, size, material, next) ==
    /\ n_blob' = r.blob
    /\ n_json' = r.json
    /\ origin' = Recorded(r.json, FromImage(o_json.textures[info.index + 1].source, out.bytes))
    /\ requests' = IF IsSome(GetImageData(o_blob, o_json, info.index))
                   THEN Append(requests, [stage |-> stage, texture |-> info.index,
                                          width |-> size, height |-> size,
                                          ktx2 |-> config.convert_to_ktx2])
                   ELSE requests
    /\ IF r.ok
       THEN n_mat' = material /\ pc' = next /\ result' = result
       ELSE /\ n_mat' = n_mat
            /\ pc' = "failed"
            /\ result' = [status |-> "err", error |-> <<ProcessError(stage, r.err)>>]

\* add_primitive: the base-color texture
BaseColor ==
    /\ pc = "base_color"
    /\ IF IsSome(CurMaterial.pbr_base_color_texture)
       THEN \E out \in CodecOutcomes :
                LET bct_info == CurMaterial.pbr_base_color_texture[1]
                    r == AddTexture(n_blob, n_json, o_blob, o_json, bct_info,
                                    config.convert_to_ktx2, out)
                IN  Converted(r, out, "base color", bct_info, config.new_texture_size,
                              [n_mat EXCEPT !.pbr_base_color_texture = <<r.info>>],
                              "metallic_roughness")
       ELSE /\ pc' = "metallic_roughness"
            /\ UNCHANGED <<n_blob, n_json, origin, requests, n_mat, result>>
    /\ UNCHANGED <<o_json, o_blob, config, pivot_offset, mi, pi, ai, si, n_mesh, n_p>>

\* add_primitive: the metallic/roughness texture, at half the edge
MetallicRoughness ==
    /\ pc = "metallic_roughness"
    /\ IF IsSome(CurMaterial.pbr_metallic_roughness_texture)
       THEN \E out \in CodecOutcomes :
                LET mr_info == CurMaterial.pbr_metallic_roughness_texture[1]
                    r == AddMetallicRoughnessTexture(n_blob, n_json, o_blob, o_json, mr_info,
                                                     config.convert_to_ktx2, out)
                IN  Converted(r, out, "metallic/roughness", mr_info,
                              MetallicRoughnessSize(config.new_texture_size),
                              [n_mat EXCEPT !.pbr_metallic_roughness_texture = <<r.info>>],
                              "normal")
       ELSE /\ pc' = "normal"
            /\ UNCHANGED <<n_blob, n_json, origin, requests, n_mat, result>>
    /\ UNCHANGED <<o_json, o_blob, config, pivot_offset, mi, pi, ai, si, n_mesh, n_p>>

\* add_primitive: the normal texture, removed or converted
Normal ==
    /\ pc = "normal"
    /\ IF config.remove_normal_texture
       THEN /\ n_mat' = [n_mat EXCEPT !.normal_texture = <<>>]
            /\ pc' = "push_material"
            /\ UNCHANGED <<n_blob, n_json, origin, requests, result>>
       ELSE IF IsSome(CurMaterial.normal_texture)
       THEN \E out \in CodecOutcomes :
                LET normal_tex == CurMaterial.normal_texture[1]
                    r == AddNormalTexture(n_blob, n_json, o_blob, o_json, normal_tex,
                                          config.convert_to_ktx2, out)
                IN  Converted(r, out, "normal", normal_tex, config.new_texture_size,
                              [n_mat EXCEPT !.normal_texture = <<r.info>>],
                              "push_material")
       ELSE /\ pc' = "push_material"
            /\ UNCHANGED <<n_blob, n_json, origin, requests, n_mat, result>>
    /\ UNCHANGED <<o_json, o_blob, config, pivot_offset, mi, pi, ai, si, n_mesh, n_p>>

\* faulty variant of PushMaterial: the primitive keeps the source material's index
PushMaterial_KeepsSourceIndex ==
    /\ pc = "push_material"
    /\ n_json' = Push(n_json, "materials", n_mat)
    /\ pc' = "push_primitive"
    /\ UNCHANGED <<o_json, o_blob, config, n_blob, pivot_offset, mi, pi, ai, si, n_mesh,
                   n_p, n_mat, result, origin, requests>>

\* add_primitive: the new material is pushed and the primitive points at it
PushMaterial ==
    /\ pc = "push_material"
    /\ n_json' = Push(n_json, "materials", n_mat)
    /\ n_p' = [n_p EXCEPT !.material = <<Len(n_json.materials)>>]
    /\ pc' = "push_primitive"
    /\ UNCHANGED <<o_json, o_blob, config, n_blob, pivot_offset, mi, pi, ai, si, n_mesh,
                   n_mat, result, origin, requests>>

\* optimize: the primitive add_primitive returned is pushed into the new mesh
PushPrimitive ==
    /\ pc = "push_primitive"
    /\ n_mesh' = Append(n_mesh, n_p)
    /\ IF pi + 1 < Len(CurMesh.primitives)
       THEN pi' = pi + 1 /\ pc' = "indices"
       ELSE pi' = pi /\ pc' = "push_mesh"
    /\ UNCHANGED <<o_json, o_blob, config, n_json, n_blob, pivot_offset, mi, ai, si, n_p,
                   n_mat, result, origin, requests>>

\* optimize: the new mesh is pushed into the new document
PushMesh ==
    /\ pc = "push_mesh"
    /\ n_json' = Push(n_json, "meshes", [CurMesh EXCEPT !.primitives = n_mesh])
    /\ n_mesh' = <<>>
    /\ mi' = mi + 1
    /\ pi' = 0
    /\ pc' = EnterMesh(mi + 1)
    /\ UNCHANGED <<o_json, o_blob, config, n_blob, pivot_offset, ai, si, n_p, n_mat, result,
                   origin, requests>>

\* faulty variant of AddSkin: a skin whose matrices cannot be relocated is left out
AddSkin_DropsUnrelocated ==
    /\ pc = "skin"
    /\ LET skin == o_json.skins[si + 1]
           r == IF IsSome(skin.inverse_bind_matrices)
                THEN AddAccessor(n_blob, n_json, o_blob, o_json, skin.inverse_bind_matrices[1])
                ELSE Unrelocated
       IN  /\ n_blob' = r.blob
           /\ n_json' = IF IsSome(skin.inverse_bind_matrices) /\ IsNone(r.ret)
                        THEN r.json
                        ELSE Push(r.json, "skins",
                                  [skin EXCEPT !.inverse_bind_matrices = r.ret])
           /\ origin' = Recorded(r.json,
                                 FromAccessor(UnwrapOr(skin.inverse_bind_matrices, 0), <<>>))
    /\ si' = si + 1
    /\ pc' = EnterSkin(si + 1)
    /\ UNCHANGED <<o_json, o_blob, config, pivot_offset, mi, pi, ai, n_mesh, n_p, n_mat,
                   result, requests>>

\* optimize: one skin, its inverse-bind matrices relocated if it has them
AddSkin ==
    /\ pc = "skin"
    /\ LET skin == o_json.skins[si + 1]
           r == IF IsSome(skin.inverse_bind_matrices)
                THEN AddAccessor(n_blob, n_json, o_blob, o_json, skin.inverse_bind_matrices[1])
                ELSE Unrelocated
       IN  /\ n_blob' = r.blob
           /\ n_json' = Push(r.json, "skins", [skin EXCEPT !.inverse_bind_matrices = r.ret])
           /\ origin' = Recorded(r.json,
                                 FromAccessor(UnwrapOr(skin.inverse_bind_matrices, 0), <<>>))
    /\ si' = si + 1
    /\ pc' = EnterSkin(si + 1)
    /\ UNCHANGED <<o_json, o_blob, config, pivot_offset, mi, pi, ai, n_mesh, n_p, n_mat,
                   result, requests>>

\* optimize: the new blob is padded
Pad ==
    /\ pc = "pad"
    /\ n_blob' = PadTo4Bytes(n_blob)
    /\ pc' = "push_buffer"
    /\ UNCHANGED <<o_json, o_blob, config, n_json, pivot_offset, mi, pi, ai, si, n_mesh, n_p,
                   n_mat, result, origin, requests>>

\* the buffer descriptor optimize pushes
NewBuffer(blob) == [byte_length |-> Len(blob)]

\* optimize: the one buffer is pushed and the container is written
PushBuffer ==
    /\ pc = "push_buffer"
    /\ n_json' = Push(n_json, "buffers", NewBuffer(n_blob))
    /\ pc' = "done"
    /\ result' = [status |-> "ok", error |-> <<>>]
    /\ UNCHANGED <<o_json, o_blob, config, n_blob, pivot_offset, mi, pi, ai, si, n_mesh, n_p,
                   n_mat, origin, requests>>

Next ==
    \/ Begin
    \/ CopyIndices
    \/ CopyAttribute
    \/ CloneMaterial
    \/ BaseColor
    \/ MetallicRoughness
    \/ Normal
    \/ PushMaterial
    \/ PushPrimitive
    \/ PushMesh
    \/ AddSkin
    \/ Pad
    \/ PushBuffer

Spec == Init /\ [][Next]_vars

(***************************************************************************)
(* Reading a document                                                      *)
(***************************************************************************)
\* an index resolves in an array
InArray(i, array) == i >= 0 /\ i < Len(array)

\* an optional index is absent or resolves
OptInArray(o, array) == o = <<>> \/ InArray(o[1], array)

\* an optional texture reference of a material is absent or resolves in doc
SlotResolves(slot, doc) == slot = <<>> \/ InArray(slot[1].index, doc.textures)

\* the references to data the pass builds anew, primitive by primitive
PrimitiveResolves(p, doc) ==
    /\ OptInArray(p.indices, doc.accessors)
    /\ \A k \in 1..Len(p.attributes) : InArray(p.attributes[k].accessor, doc.accessors)
    /\ OptInArray(p.material, doc.materials)

\* the three texture slots add_primitive converts
ConvertedSlotsResolve(doc) ==
    \A k \in 1..Len(doc.materials) :
        /\ SlotResolves(doc.materials[k].pbr_base_color_texture, doc)
        /\ SlotResolves(doc.materials[k].pbr_metallic_roughness_texture, doc)
        /\ SlotResolves(doc.materials[k].normal_texture, doc)

\* the two texture slots a material has besides
OtherSlotsResolve(doc) ==
    \A k \in 1..Len(doc.materials) :
        /\ SlotResolves(doc.materials[k].occlusion_texture, doc)
        /\ SlotResolves(doc.materials[k].emissive_texture, doc)

\* the references that point at entries the pass has pushed before their holder
BackwardReferencesResolve(doc) ==
    /\ \A k \in 1..Len(doc.accessors) :
           OptInArray(doc.accessors[k].buffer_view, doc.buffer_views)
    /\ \A k \in 1..Len(doc.images) : OptInArray(doc.images[k].buffer_view, doc.buffer_views)
    /\ \A k \in 1..Len(doc.textures) :
           /\ InArray(doc.textures[k].source, doc.images)
           /\ OptInArray(doc.textures[k].sampler, doc.samplers)
    /\ ConvertedSlotsResolve(doc)
    /\ \A k \in 1..Len(doc.meshes) :
           \A j \in 1..Len(doc.meshes[k].primitives) :
               PrimitiveResolves(doc.meshes[k].primitives[j], doc)
    /\ \A k \in 1..Len(doc.skins) :
           OptInArray(doc.skins[k].inverse_bind_matrices, doc.accessors)
    /\ \A k \in 1..Len(doc.nodes) : OptInArray(doc.nodes[k].camera, doc.cameras)
    /\ \A k \in 1..Len(doc.scenes) :
           \A j \in 1..Len(doc.scenes[k].nodes) : InArray(doc.scenes[k].nodes[j], doc.nodes)
    /\ \A k \in 1..Len(doc.skins) :
           \A j \in 1..Len(doc.skins[k].joints) : InArray(doc.skins[k].joints[j], doc.nodes)
    /\ OptInArray(doc.scene, doc.scenes)

\* the references whose targets the pass pushes after their holder
ForwardReferencesResolve(doc) ==
    /\ \A k \in 1..Len(doc.buffer_views) : InArray(doc.buffer_views[k].buffer, doc.buffers)
    /\ \A k \in 1..Len(doc.nodes) :
           /\ OptInArray(doc.nodes[k].mesh, doc.meshes)
           /\ OptInArray(doc.nodes[k].skin, doc.skins)

\* every index-valued reference of doc resolves in doc
ReferentiallyClosed(doc) ==
    /\ BackwardReferencesResolve(doc)
    /\ ForwardReferencesResolve(doc)
    /\ OtherSlotsResolve(doc)

ViewEnd(view) == ViewOffset(view) + view.byte_length

\* the bytes of blob a buffer-view declares
ViewBytes(blob, view) == SubSeq(blob, ViewOffset(view) + 1, ViewEnd(view))

RECURSIVE SumOfLengths(_, _)
SumOfLengths(views, n) == IF n = 0 THEN 0 ELSE SumOfLengths(views, n - 1) + views[n].byte_length

Succeeded == pc = "done" /\ result.status = "ok"

(***************************************************************************)
(* C1: whenever optimize succeeds, every index-valued reference of the     *)
(* output document resolves in the output document.  The code leaves the   *)
(* occlusion and emissive texture references of a cloned material as they  *)
(* were in the source, while the texture array is built anew.              *)
(***************************************************************************)
C1_OutputReferentiallyClosed == Succeeded => ReferentiallyClosed(n_json)

(***************************************************************************)
(* C2: the byte ranges of any two distinct buffer-views of the new         *)
(* document are disjoint.                                                  *)
(***************************************************************************)
C2_ViewsDisjoint ==
    \A i \in 1..Len(n_json.buffer_views) :
        \A j \in 1..Len(n_json.buffer_views) :
            i < j =>
                LET a == n_json.buffer_views[i]
                    b == n_json.buffer_views[j]
                IN  ViewEnd(a) <= ViewOffset(b) \/ ViewEnd(b) <= ViewOffset(a)

\* a finished run with a relocated accessor's view and a re-embedded image's view
C2_Witness ==
    /\ Succeeded
    /\ \E i \in 1..Len(origin) : origin[i].kind = "accessor"
    /\ \E i \in 1..Len(origin) : origin[i].kind = "image"
    /\ \A i \in 1..Len(n_json.buffer_views) : n_json.buffer_views[i].byte_length > 0

(***************************************************************************)
(* C3: whenever optimize succeeds, the new blob's length is a multiple of  *)
(* 4, the bytes after the last buffer-view (fewer than 4) are zero, and    *)
(* the one buffer of the document declares that length.                    *)
(***************************************************************************)
C3_PaddedBlob ==
    Succeeded =>
        LET used == SumOfLengths(n_json.buffer_views, Len(n_json.buffer_views))
        IN  /\ Len(n_blob) % 4 = 0
            /\ used <= Len(n_blob) /\ Len(n_blob) - used < 4
            /\ \A k \in (used + 1)..Len(n_blob) : n_blob[k] = 0
            /\ Len(n_json.buffers) = 1
            /\ n_json.buffers[1].byte_length = Len(n_blob)

\* a finished run whose blob needed three bytes of padding
C3_Witness ==
    /\ Succeeded
    /\ SumOfLengths(n_json.buffer_views, Len(n_json.buffer_views)) % 4 = 1
    /\ Len(n_blob) > 4

(***************************************************************************)
(* C4: each buffer-view of the new document starts where the views made    *)
(* before it end (the new blob's length before its append), is as long as  *)
(* the bytes appended for it, and holds those bytes: the codec's bytes for *)
(* an image, the unchanged source span for an accessor relocated without   *)
(* an offset.                                                              *)
(***************************************************************************)
C4_ViewsMatchAppends ==
    /\ Len(origin) = Len(n_json.buffer_views)
    /\ \A k \in 1..Len(n_json.buffer_views) :
           LET view == n_json.buffer_views[k]
           IN  /\ ViewOffset(view) = SumOfLengths(n_json.buffer_views, k - 1)
               /\ ViewEnd(view) <= Len(n_blob)
               /\ origin[k].kind = "image" => ViewBytes(n_blob, view) = origin[k].bytes
               /\ origin[k].kind = "accessor" =>
                      LET acc == o_json.accessors[origin[k].source + 1]
                          o_view == o_json.buffer_views[acc.buffer_view[1] + 1]
                      IN  /\ view.byte_length = o_view.byte_length
                          /\ origin[k].offset = <<>> =>
                                 ViewBytes(n_blob, view) = ViewBytes(o_blob, o_view)
    /\ pc \notin {"push_buffer", "done"} =>
           Len(n_blob) = SumOfLengths(n_json.buffer_views, Len(n_json.buffer_views))

\* a finished run with an image appended after relocated accessors
C4_Witness ==
    /\ Succeeded
    /\ Len(origin) >= 3
    /\ origin[1].kind = "accessor"
    /\ \E k \in 2..Len(origin) : origin[k].kind = "image" /\ Len(origin[k].bytes) = 2

PassThrough == ~config.convert_to_ktx2 /\ ~config.center_pivot

PassThroughArraysUnchanged ==
    /\ n_json.nodes = o_json.nodes
    /\ n_json.cameras = o_json.cameras
    /\ n_json.scenes = o_json.scenes
    /\ n_json.samplers = o_json.samplers
    /\ Len(n_json.meshes) = Len(o_json.meshes)

\* the source primitives that have a material, as <<mesh, primitive>> positions
PrimitivesOf(doc) ==
    UNION {{<<m, j>> : j \in 1..Len(doc.meshes[m].primitives)} : m \in 1..Len(doc.meshes)}

PrimitivesWithMaterial ==
    {mp \in PrimitivesOf(o_json) : IsSome(o_json.meshes[mp[1]].primitives[mp[2]].material)}

MaterialAt(mp) == o_json.materials[o_json.meshes[mp[1]].primitives[mp[2]].material[1] + 1]

\* how many texture slots of a material the pass converts
ConvertedSlotCount(mat) ==
    (IF IsSome(mat.pbr_base_color_texture) THEN 1 ELSE 0)
    + (IF IsSome(mat.pbr_metallic_roughness_texture) THEN 1 ELSE 0)
    + (IF IsSome(mat.normal_texture) /\ ~config.remove_normal_texture THEN 1 ELSE 0)

RECURSIVE SumOver(_, _)
SumOver(S, f) ==
    IF S = {} THEN 0 ELSE LET x == CHOOSE y \in S : TRUE IN f[x] + SumOver(S \ {x}, f)

ConvertedSlotTotal ==
    SumOver(PrimitivesWithMaterial,
            [mp \in PrimitivesWithMaterial |-> ConvertedSlotCount(MaterialAt(mp))])

RecordsOf(blob, doc, idx) ==
    LET acc == doc.accessors[idx + 1]
        view == doc.buffer_views[acc.buffer_view[1] + 1]
        bytes == ViewBytes(blob, view)
        at(i) == UnwrapOr(acc.byte_offset, 0) + (i - 1) * UnwrapOr(view.byte_stride, 12)
    IN  [i \in 1..acc.count |->
            <<F32FromLe(bytes, at(i)), F32FromLe(bytes, at(i) + 4), F32FromLe(bytes, at(i) + 8)>>]

\* an accessor of the source whose span is in the blob
Relocatable(idx) ==
    LET acc == o_json.accessors[idx + 1]
    IN  /\ IsSome(acc.buffer_view)
        /\ ViewEnd(o_json.buffer_views[acc.buffer_view[1] + 1]) <= Len(o_blob)

\* an accessor of the source all of whose records are inside its view's span
RecordsInside(idx) ==
    LET acc == o_json.accessors[idx + 1]
        view == o_json.buffer_views[acc.buffer_view[1] + 1]
    IN  UnwrapOr(acc.byte_offset, 0) + (acc.count - 1) * UnwrapOr(view.byte_stride, 12) + 12
            <= view.byte_length

\* the positions of the primitives that have a POSITION attribute: <<mesh, primitive, k>>
PositionAttributes(doc) ==
    UNION {{<<mp[1], mp[2], k>> :
               k \in {a \in 1..Len(doc.meshes[mp[1]].primitives[mp[2]].attributes) :
                         doc.meshes[mp[1]].primitives[mp[2]].attributes[a].semantic
                             = "POSITION"}} :
           mp \in PrimitivesOf(doc)}

AccessorAt(doc, t) == doc.meshes[t[1]].primitives[t[2]].attributes[t[3]].accessor

PositionsReadable ==
    \A t \in PositionAttributes(o_json) :
        Relocatable(AccessorAt(o_json, t)) /\ RecordsInside(AccessorAt(o_json, t))

\* all positions of a document, as a set
AllPositions(blob, doc) ==
    UNION {{RecordsOf(blob, doc, AccessorAt(doc, t))[i] :
               i \in 1..doc.accessors[AccessorAt(doc, t) + 1].count} :
           t \in PositionAttributes(doc)}

Lowest(P, c) == CHOOSE v \in {q[c] : q \in P} : \A q \in P : v <= q[c]

Highest(P, c) == CHOOSE v \in {q[c] : q \in P} : \A q \in P : v >= q[c]

\* the translation the claim names, from the bounding box of the set P
CenterBottom(P) ==
    << -((Lowest(P, 1) + Highest(P, 1)) \div 2), -Lowest(P, 2),
       -((Lowest(P, 3) + Highest(P, 3)) \div 2) >>

Moved(q, off) == <<q[1] + off[1], q[2] + off[2], q[3] + off[3]>>

C7_PivotCorrect ==
    Succeeded /\ config.center_pivot /\ PositionsReadable =>
        LET src == AllPositions(o_blob, o_json)
            out == AllPositions(n_blob, n_json)
            off == CenterBottom(src)
        IN  /\ PositionAttributes(n_json) = PositionAttributes(o_json)
            /\ \A t \in PositionAttributes(o_json) :
                   LET o_acc == o_json.accessors[AccessorAt(o_json, t) + 1]
                       n_acc == n_json.accessors[AccessorAt(n_json, t) + 1]
                       o_rec == RecordsOf(o_blob, o_json, AccessorAt(o_json, t))
                       n_rec == RecordsOf(n_blob, n_json, AccessorAt(n_json, t))
                   IN  /\ n_acc.count = o_acc.count
                       /\ \A i \in 1..o_acc.count : n_rec[i] = Moved(o_rec[i], off)
                       /\ IsSome(o_acc.min) => n_acc.min = <<Moved(o_acc.min[1], off)>>
                       /\ IsSome(o_acc.max) => n_acc.max = <<Moved(o_acc.max[1], off)>>
            /\ Lowest(out, 2) = 0
            /\ Lowest(out, 1) + Highest(out, 1) = 0
            /\ Lowest(out, 3) + Highest(out, 3) = 0
            /\ (/\ <<Lowest(src, 1), Lowest(src, 2), Lowest(src, 3)>> = <<-4, 0, -2>>
                /\ <<Highest(src, 1), Highest(src, 2), Highest(src, 3)>> = <<4, 8, 6>>)
               => off = <<0, 0, -2>>

\* a recentered run over two meshes whose positions span (-2,0,-1) .. (2,4,3)
C7_Witness ==
    /\ Succeeded /\ config.center_pivot /\ PositionsReadable
    /\ Cardinality(PositionAttributes(o_json)) = 2
    /\ pivot_offset = << <<0, 0, -2>> >>
    /\ <<-4, 0, -2>> \in AllPositions(o_blob, o_json)
    /\ <<4, 8, 6>> \in AllPositions(o_blob, o_json)
    /\ <<2, 2, 0>> \in AllPositions(o_blob, o_json)

(***************************************************************************)
(* C8: when transcoding is enabled, KHR_texture_basisu is in the output's  *)
(* used and required extension lists, and exactly once in each when the    *)
(* source lists hold it at most once (as the output of an earlier          *)
(* transcoding run does).                                                  *)
(***************************************************************************)
Count(list, x) == Cardinality({k \in 1..Len(list) : list[k] = x})

C8_ExtensionOnce ==
    pc /= "start" /\ config.convert_to_ktx2 =>
        /\ Contains(n_json.extensions_used, "KHR_texture_basisu")
        /\ Contains(n_json.extensions_required, "KHR_texture_basisu")
        /\ (/\ Count(o_json.extensions_used, "KHR_texture_basisu") <= 1
            /\ Count(o_json.extensions_required, "KHR_texture_basisu") <= 1)
           => /\ Count(n_json.extensions_used, "KHR_texture_basisu") = 1
              /\ Count(n_json.extensions_required, "KHR_texture_basisu") = 1

\* a second transcoding run: the source lists are those a first run wrote
C8_Witness ==
    /\ Succeeded /\ config.convert_to_ktx2
    /\ o_json.extensions_required = <<"KHR_materials_unlit", "KHR_texture_basisu">>
    /\ o_json.extensions_used = o_json.extensions_required
    /\ n_json.extensions_required = o_json.extensions_required

(***************************************************************************)
(* C9: a base-color, metallic-roughness or normal texture whose source     *)
(* image has no buffer-view is dropped from the output material and        *)
(* optimize completes.  As the code goes it does not: when the pass comes  *)
(* to such a slot (base-color, metallic-roughness, or normal unless normal *)
(* maps are removed) optimize returns an error that names the slot's role  *)
(* and the source texture index, having appended and pushed nothing for    *)
(* the slot, and no run over a material with such a slot succeeds.         *)
(***************************************************************************)
\* the texture references the pass converts for a material, with their stages
ConvertedSlots(mat) ==
    (IF IsSome(mat.pbr_base_color_texture)
     THEN {[stage |-> "base color", info |-> mat.pbr_base_color_texture[1]]} ELSE {})
    \cup (IF IsSome(mat.pbr_metallic_roughness_texture)
          THEN {[stage |-> "metallic/roughness", info |-> mat.pbr_metallic_roughness_texture[1]]}
          ELSE {})
    \cup (IF IsSome(mat.normal_texture) /\ ~config.remove_normal_texture
          THEN {[stage |-> "normal", info |-> mat.normal_texture[1]]} ELSE {})

\* the image a source texture shows has no buffer-view
ImageNotEmbedded(texture_idx) ==
    IsNone(o_json.images[o_json.textures[texture_idx + 1].source + 1].buffer_view)

FailedOnMissingImage ==
    pc = "failed" /\ result.status = "err" /\ result.error[1].cause = "missing image data"

C9_MissingImageAborts ==
    /\ FailedOnMissingImage =>
           LET e == result.error[1]
           IN  /\ \E slot \in ConvertedSlots(CurMaterial) :
                      /\ slot.stage = e.stage
                      /\ e.role = <<slot.stage>>
                      /\ e.texture_index = <<slot.info.index>>
                      /\ ImageNotEmbedded(slot.info.index)
               /\ Len(n_json.buffers) = 0
               /\ Len(n_blob) = SumOfLengths(n_json.buffer_views, Len(n_json.buffer_views))
               /\ Len(n_json.textures) = Len(n_json.images)
    /\ Succeeded =>
           \A mp \in PrimitivesWithMaterial :
               \A slot \in ConvertedSlots(MaterialAt(mp)) : ~ImageNotEmbedded(slot.info.index)

\* the claim as stated: a missing image never makes optimize fail
C9_MissingImageDropped == ~FailedOnMissingImage

\* the base-color texture was converted, the metallic-roughness image is not embedded
C9_Witness ==
    /\ FailedOnMissingImage
    /\ result.error[1].stage = "metallic/roughness"
    /\ result.error[1].texture_index = <<1>>
    /\ Len(n_json.textures) = 1

(***************************************************************************)
(* C10: an attribute whose accessor cannot be relocated (it has no         *)
(* buffer-view, or its view's range is not inside the source blob) is      *)
(* skipped: that turn of the attribute loop appends nothing, pushes        *)
(* nothing and raises no error, and the output primitive has exactly the   *)
(* other attributes, in order.                                             *)
(***************************************************************************)
\* the semantics of the attributes of p that satisfy keep, in order
RECURSIVE KeptSemantics(_, _, _)
KeptSemantics(attributes, keep, k) ==
    IF k > Len(attributes) THEN <<>>
    ELSE (IF keep[attributes[k].accessor] THEN <<attributes[k].semantic>> ELSE <<>>)
         \o KeptSemantics(attributes, keep, k + 1)

RelocatableMap == [idx \in 0..(Len(o_json.accessors) - 1) |-> Relocatable(idx)]

Everything == [idx \in 0..(Len(n_json.accessors) - 1) |-> TRUE]

C10_OutputAttributes ==
    \A m \in 1..Len(n_json.meshes) :
        \A j \in 1..Len(n_json.meshes[m].primitives) :
            KeptSemantics(n_json.meshes[m].primitives[j].attributes, Everything, 1)
                = KeptSemantics(o_json.meshes[m].primitives[j].attributes, RelocatableMap, 1)

C10_SkipStep ==
    (/\ pc = "attributes"
     /\ ai < Len(CurPrim.attributes)
     /\ ~Relocatable(CurPrim.attributes[ai + 1].accessor))
    => /\ n_blob' = n_blob
       /\ n_json' = n_json
       /\ n_p' = n_p
       /\ result' = result
       /\ pc' = "attributes"

C10_MissingAccessorSkipped == [](C10_OutputAttributes) /\ [][C10_SkipStep]_vars

\* a finished run whose first primitive lost POSITION and kept NORMAL
C10_Witness ==
    /\ Succeeded
    /\ ~Relocatable(0)
    /\ Relocatable(1)
    /\ KeptSemantics(n_json.meshes[1].primitives[1].attributes, Everything, 1) = <<"NORMAL">>

(***************************************************************************)
(* C11: a failure of the resize/codec service during a base-color,         *)
(* metallic-roughness or normal conversion makes optimize return an error  *)
(* without output, and the error names the texture's role and the source   *)
(* texture index.  The service's error is passed on with `?` and wrapped   *)
(* by add_primitive in "Failed to process <role> texture: ...": the role   *)
(* is named, the texture index is not.                                     *)
(***************************************************************************)
FailedOnCodec ==
    pc = "failed" /\ result.status = "err" /\ result.error[1].cause = "codec"

\* the slot of the material in work whose conversion the error belongs to
FailedSlot == CHOOSE slot \in ConvertedSlots(CurMaterial) : slot.stage = result.error[1].stage

C11_CodecFailureNamesRoleAndIndex ==
    FailedOnCodec =>
        /\ \E slot \in ConvertedSlots(CurMaterial) : slot.stage = result.error[1].stage
        /\ Len(n_json.buffers) = 0
        /\ result.error[1].stage \in {"base color", "metallic/roughness", "normal"}
        /\ result.error[1].texture_index = <<FailedSlot.info.index>>

(***************************************************************************)
(* C12: transcoding to KTX2 turns every image name and URI into the same   *)
(* string with its recognized extension (.jpg, .jpeg, .png, .webp, in any  *)
(* mix of upper and lower case) replaced by .ktx2, or with .ktx2 appended  *)
(* when it has no recognized extension.  The code replaces the eight       *)
(* all-lower and all-upper spellings wherever they occur in the string.    *)
(***************************************************************************)
\* a character in lower case
Lower(c) ==
    CASE c = "P" -> "p" [] c = "N" -> "n" [] c = "G" -> "g" [] c = "J" -> "j"
      [] c = "E" -> "e" [] c = "W" -> "w" [] c = "B" -> "b" [] OTHER -> c

LowerCase(name) == [k \in 1..Len(name) |-> Lower(name[k])]

RecognizedExtensions ==
    {<<".", "j", "p", "g">>, <<".", "j", "p", "e", "g">>, <<".", "p", "n", "g">>,
     <<".", "w", "e", "b", "p">>}

\* name ends with ext, whatever the case of its letters
EndsWith(name, ext) ==
    /\ Len(name) >= Len(ext)
    /\ SubSeq(LowerCase(name), Len(name) - Len(ext) + 1, Len(name)) = ext

\* the name the rule of C12 gives
Rewritten(name) ==
    IF \E ext \in RecognizedExtensions : EndsWith(name, ext)
    THEN LET ext == CHOOSE x \in RecognizedExtensions : EndsWith(name, x)
         IN  SubSeq(name, 1, Len(name) - Len(ext)) \o ExtKtx2
    ELSE name \o ExtKtx2

\* the source image the k-th image of the new document was made from
SourceImageOf(k) == o_json.images[origin[n_json.images[k].buffer_view[1] + 1].source + 1]

C12_NamesRewritten ==
    config.convert_to_ktx2 =>
        \A k \in 1..Len(n_json.images) :
            LET src == SourceImageOf(k)
                img == n_json.images[k]
            IN  /\ IsSome(src.name) => img.name = <<Rewritten(src.name[1])>>
                /\ IsSome(src.uri) => img.uri = <<Rewritten(src.uri[1])>>

(***************************************************************************)
(* C13: for every target edge E given to optimize, the base-color and the  *)
(* normal conversions are requested at E x E and the metallic-roughness    *)
(* conversion at the half of E, rounded down, in both dimensions; E = 1024 *)
(* requests the metallic-roughness conversion at edge 512.                 *)
(***************************************************************************)
\* w is the half of e, rounded down
HalfOf(e, w) == 2 * w <= e /\ e < 2 * w + 2

C13_RoleBasedSizing ==
    \A k \in 1..Len(requests) :
        LET q == requests[k]
            E == config.new_texture_size
        IN  /\ q.width = q.height
            /\ q.stage \in {"base color", "normal"} => q.width = E
            /\ q.stage = "metallic/roughness" => HalfOf(E, q.width)
            /\ q.stage = "metallic/roughness" /\ E = 1024 => q.width = 512

\* a finished run at E = 1024 that asked for the three conversions
C13_Witness ==
    /\ Succeeded
    /\ config.new_texture_size = 1024
    /\ Len(requests) = 3
    /\ requests[1].stage = "base color" /\ requests[1].width = 1024
    /\ requests[2].stage = "metallic/roughness" /\ requests[2].width = 512
    /\ requests[3].stage = "normal" /\ requests[3].height = 1024

(***************************************************************************)
(* C14: a relocation that is given an offset adds it to the records and to *)
(* min/max only when the source accessor is a 3-component float accessor;  *)
(* an accessor of any other element or component type is copied verbatim.  *)
(* The code never looks at the accessor's type: given an offset, it adds   *)
(* it to three floats per record and to min/max whatever the layout.       *)
(***************************************************************************)
ThreeFloats(acc) == acc.type = "VEC3" /\ acc.component_type = "F32"

\* the accessors of the new document that read the k-th new buffer-view
AccessorsOfView(k) ==
    {j \in 1..Len(n_json.accessors) : n_json.accessors[j].buffer_view = <<k - 1>>}

\* the k-th new buffer-view and its accessors are the source's, byte for byte
CopiedVerbatim(k) ==
    LET acc == o_json.accessors[origin[k].source + 1]
        o_view == o_json.buffer_views[acc.buffer_view[1] + 1]
    IN  /\ ViewBytes(n_blob, n_json.buffer_views[k]) = ViewBytes(o_blob, o_view)
        /\ \A j \in AccessorsOfView(k) :
               /\ n_json.accessors[j].min = acc.min
               /\ n_json.accessors[j].max = acc.max

C14_OffsetOnlyForThreeFloats ==
    \A k \in 1..Len(origin) :
        (/\ origin[k].kind = "accessor"
         /\ IsSome(origin[k].offset)
         /\ ~ThreeFloats(o_json.accessors[origin[k].source + 1]))
        => CopiedVerbatim(k)

(***************************************************************************)
(* C15: the pivot offset touches position data only.  Under every          *)
(* configuration the spans relocated for indices, for every attribute      *)
(* other than POSITION and for inverse-bind matrices are the source spans, *)
(* byte for byte, and their accessors' min/max are the source's; when      *)
(* recentering is disabled, or no position data is found, so are the       *)
(* POSITION spans and their min/max.                                       *)
(***************************************************************************)
\* accessor n_idx of the new document is accessor o_idx of the source, with the same bytes
Verbatim(n_idx, o_idx) ==
    LET n_acc == n_json.accessors[n_idx + 1]
        o_acc == o_json.accessors[o_idx + 1]
    IN  /\ [n_acc EXCEPT !.buffer_view = o_acc.buffer_view] = o_acc
        /\ ViewBytes(n_blob, n_json.buffer_views[n_acc.buffer_view[1] + 1])
               = ViewBytes(o_blob, o_json.buffer_views[o_acc.buffer_view[1] + 1])

\* the accessor the source primitive gives the attribute semantic
SourceAccessorOf(o_p, semantic) ==
    o_p.attributes[CHOOSE k \in 1..Len(o_p.attributes) :
                       o_p.attributes[k].semantic = semantic].accessor

\* no translation is due: recentering is off, or the bounding box found no position
NoTranslation == ~config.center_pivot \/ IsNone(CalculateBoundingBox(o_blob, o_json))

\* the new primitive n_p0 holds the data of the source primitive o_p, positions apart
PrimitiveUntouched(n_p0, o_p) ==
    /\ IsSome(n_p0.indices) => Verbatim(n_p0.indices[1], o_p.indices[1])
    /\ \A k \in 1..Len(n_p0.attributes) :
           LET a == n_p0.attributes[k]
           IN  (a.semantic /= "POSITION" \/ NoTranslation)
                   => Verbatim(a.accessor, SourceAccessorOf(o_p, a.semantic))

C15_PivotTouchesPositionsOnly ==
    /\ \A m \in 1..Len(n_json.meshes) :
           \A j \in 1..Len(n_json.meshes[m].primitives) :
               PrimitiveUntouched(n_json.meshes[m].primitives[j],
                                  o_json.meshes[m].primitives[j])
    /\ \A k \in 1..Len(n_json.skins) :
           IsSome(n_json.skins[k].inverse_bind_matrices)
               => Verbatim(n_json.skins[k].inverse_bind_matrices[1],
                           o_json.skins[k].inverse_bind_matrices[1])

\* recentering was asked for, no position data was found, the positions were relocated
NothingFoundYetRelocated ==
    /\ Succeeded
    /\ config.center_pivot
    /\ IsNone(CalculateBoundingBox(o_blob, o_json))
    /\ \E k \in 1..Len(n_json.meshes[1].primitives[1].attributes) :
           n_json.meshes[1].primitives[1].attributes[k].semantic = "POSITION"

\* a recentred run that moved its positions and relocated indices, normals and matrices
C15_Witness ==
    /\ Succeeded
    /\ config.center_pivot
    /\ pivot_offset \notin {<<>>, << <<0, 0, 0>> >>}
    /\ LET p == n_json.meshes[1].primitives[1]
       IN  /\ IsSome(p.indices)
           /\ Len(p.attributes) = 2
           /\ p.attributes[1].semantic = "POSITION"
           /\ ~Verbatim(p.attributes[1].accessor, 0)
           /\ p.attributes[2].semantic = "NORMAL"
    /\ Len(n_json.skins) >= 1
    /\ IsSome(n_json.skins[1].inverse_bind_matrices)

(***************************************************************************)
(* C16: whenever optimize succeeds, the output has as many meshes and      *)
(* skins as the source, in the source's order, and each output mesh has as *)
(* many primitives as its source mesh, even when relocations inside them   *)
(* failed; so the mesh and skin indices of the nodes, which are copied     *)
(* verbatim, denote the rebuilt counterparts of what they denoted.         *)
(***************************************************************************)
\* the new mesh is the rebuilt source mesh: all its fields but the primitives are the same
MeshRebuilt(n_m, o_m) ==
    /\ [n_m EXCEPT !.primitives = o_m.primitives] = o_m
    /\ Len(n_m.primitives) = Len(o_m.primitives)

\* the new skin is the rebuilt source skin: all its fields but the matrices are the same
SkinRebuilt(n_s, o_s) ==
    [n_s EXCEPT !.inverse_bind_matrices = o_s.inverse_bind_matrices] = o_s

C16_MeshesAndSkinsPreserved ==
    Succeeded =>
        /\ Len(n_json.meshes) = Len(o_json.meshes)
        /\ \A m \in 1..Len(o_json.meshes) : MeshRebuilt(n_json.meshes[m], o_json.meshes[m])
        /\ Len(n_json.skins) = Len(o_json.skins)
        /\ \A k \in 1..Len(o_json.skins) : SkinRebuilt(n_json.skins[k], o_json.skins[k])
        /\ n_json.nodes = o_json.nodes
        /\ \A k \in 1..Len(n_json.nodes) :
               /\ OptInArray(n_json.nodes[k].mesh, n_json.meshes)
               /\ OptInArray(n_json.nodes[k].skin, n_json.skins)

\* a finished run over two skins and two primitives: the first skin's matrices and the
\* first primitive's positions could not be relocated
C16_Witness ==
    /\ Succeeded
    /\ Len(n_json.skins) = 2
    /\ Len(n_json.meshes[1].primitives) = 2
    /\ \/ /\ IsSome(o_json.skins[1].inverse_bind_matrices)
          /\ IsNone(n_json.skins[1].inverse_bind_matrices)
       \/ Len(n_json.meshes[1].primitives[1].attributes)
              < Len(o_json.meshes[1].primitives[1].attributes)

(***************************************************************************)
(* C17: optimize only adds to the extension lists: every name of the       *)
(* source's used list is in the output's used list and every name of the   *)
(* source's required list is in the output's required list, under every    *)
(* configuration.  The code builds the output's used list from the         *)
(* source's required list, so a name that is used and not required is lost.*)
(***************************************************************************)
\* every name of the list from is in the list to
ListedIn(from, to) == \A k \in 1..Len(from) : Contains(to, from[k])

C17_ExtensionListsGrow ==
    Succeeded =>
        /\ ListedIn(o_json.extensions_used, n_json.extensions_used)
        /\ ListedIn(o_json.extensions_required, n_json.extensions_required)

====
